---- MODULE Spec2Model ----
(***************************************************************************)
(* Scholar Citation Tracker (scripts/check_citations.py).                  *)
(*                                                                         *)
(* One run of main(): load the persisted snapshot, fetch the profile and   *)
(* the paginated article list, diff against the snapshot, save the new    *)
(* snapshot, export the dashboard projection, then notify by email when    *)
(* the total went up.  Runs are sequential (one scheduled job at a time).  *)
(*                                                                         *)
(* JSON objects are records (a missing key is a missing field), JSON       *)
(* arrays are sequences, strings that the program inspects (titles, the    *)
(* environment's credentials) are sequences of one-character strings.      *)
(***************************************************************************)
EXTENDS Integers, Sequences, FiniteSets, TLC

VARIABLES
    pc,         \* position of the current run in main()
    env,        \* SERPAPI_KEY, SENDER_EMAIL, SENDER_PASSWORD of this process
    remote,     \* what the data source holds during this run
    disk,       \* data/citations.json: <<>> when absent, <<snapshot>> otherwise
    docs,       \* docs/data.json: <<>> when absent, <<dashboard>> otherwise
    clock,      \* datetime.now() of the latest run
    runs,       \* runs started so far
    old_data,   \* main: old_data
    profile,    \* main: profile
    articles,   \* fetch_all_articles: all_articles, then main: articles
    start,      \* fetch_all_articles: start
    requests,   \* article pages requested in this run
    diff,       \* main: diff
    new_data,   \* main: new_data
    attempts,   \* SMTP sessions opened in this run
    outbox,     \* messages delivered in this run
    fault,      \* the first upstream fault this run met ("none" when none)
    written,    \* the files this run has written, in order
    baseline    \* the total fetched by the latest ended run that reached save

vars == <<pc, env, remote, disk, docs, clock, runs, old_data, profile, articles,
          start, requests, diff, new_data, attempts, outbox, fault, written,
          baseline>>

-----------------------------------------------------------------------------
(* Program constants *)

SCHOLAR_ID == "R_1o4RIAAAAJ"
SCHOLAR_NAME == "Negar Arabzadeh"
page_size == 100
SafetyCap == 500
HistoryCap == 365
DashboardArticles == 50
DashboardHistory == 90

(* Bounds of the model *)

MaxRuns == 2
MaxTotal == 2
MaxDiffTotal == 1
MaxCount == 2

-----------------------------------------------------------------------------
(* Python helpers *)

\* dict.get(k, default)
Get(d, k, default) == IF k \in DOMAIN d THEN d[k] ELSE default

\* JSON null / Python None, as a value that is not a dict
None == [None |-> TRUE]

\* isinstance(v, dict)
IsDict(v) == "None" \notin DOMAIN v

Min(a, b) == IF a < b THEN a ELSE b

\* s[:n]
FirstN(s, n) == SubSeq(s, 1, Min(n, Len(s)))

\* s[-n:]   (n > 0)
LastN(s, n) == SubSeq(s, Len(s) - Min(n, Len(s)) + 1, Len(s))

Whitespace == {" ", "\t", "\n"}

RECURSIVE lstrip(_)
lstrip(s) == IF s # <<>> /\ Head(s) \in Whitespace THEN lstrip(Tail(s)) ELSE s

RECURSIVE rstrip(_)
rstrip(s) ==
    IF s # <<>> /\ s[Len(s)] \in Whitespace
    THEN rstrip(SubSeq(s, 1, Len(s) - 1))
    ELSE s

\* str.strip()
strip(s) == rstrip(lstrip(s))

LowerChar(c) ==
    CASE c = "A" -> "a"
      [] c = "B" -> "b"
      [] OTHER -> c

\* a lookup key that keeps the title's case
lower_CaseKept(s) == s

\* str.lower()
lower(s) == [i \in 1..Len(s) |-> LowerChar(s[i])]

-----------------------------------------------------------------------------
(* load_previous_data: the zero-value snapshot when no file exists *)

DefaultData ==
    [scholar_id |-> SCHOLAR_ID, name |-> SCHOLAR_NAME, last_checked |-> None,
     total_citations |-> 0, h_index |-> 0, i10_index |-> 0,
     articles |-> <<>>, history |-> <<>>]

load_previous_data(file) == IF file # <<>> THEN file[1] ELSE DefaultData

\* save_data: the file's content after the write
save_data(data) == <<data>>

-----------------------------------------------------------------------------
(* compute_diff *)

\* the loop over cited_by.table: the last row holding a key wins
RECURSIVE ScanTable(_, _, _)
ScanTable(table, i, acc) ==
    IF i > Len(table) THEN acc
    ELSE LET row == table[i]
             a1 == IF "citations" \in DOMAIN row
                   THEN [acc EXCEPT !.total = Get(row.citations, "all", 0)]
                   ELSE acc
             a2 == IF "h_index" \in DOMAIN row
                   THEN [a1 EXCEPT !.h = Get(row.h_index, "all", 0)]
                   ELSE a1
             a3 == IF "i10_index" \in DOMAIN row
                   THEN [a2 EXCEPT !.i10 = Get(row.i10_index, "all", 0)]
                   ELSE a2
         IN  ScanTable(table, i + 1, a3)

\* new_total, new_h, new_i10 of compute_diff
NewMetrics(prof) ==
    ScanTable(Get(Get(prof, "cited_by", <<>>), "table", <<>>), 1,
              [total |-> 0, h |-> 0, i10 |-> 0])

\* key = a.get("title", "").strip().lower() of an old article
OldKey(a) == lower(strip(Get(a, "title", <<>>)))

\* old_articles_map after the loop: normalized title -> old article, empty
\* keys skipped, a later article with the same key replacing an earlier one
BuildOldMap(arts) ==
    LET key == [i \in DOMAIN arts |-> OldKey(arts[i])]
        last(k) == LET held == {i \in DOMAIN arts : key[i] = k}
                   IN  CHOOSE i \in held : \A j \in held : j <= i
    IN  [k \in {key[i] : i \in DOMAIN arts} \ {<<>>} |-> arts[last(k)]]

old_articles_map(old) == BuildOldMap(Get(old, "articles", <<>>))

\* new_count of a fetched article
NewCount(a) ==
    IF "cited_by" \in DOMAIN a /\ IsDict(a.cited_by)
    THEN Get(a.cited_by, "value", 0)
    ELSE 0

\* old_count of a fetched article
OldCount(map, a) ==
    LET key == lower(strip(Get(a, "title", <<>>)))
    IN  IF key \in DOMAIN map THEN Get(map[key], "citation_count", 0) ELSE 0

\* the per-article comparison slipped to >=
Increased_OrEqual(new_count, old_count) == new_count >= old_count

\* new_count > old_count
Increased(new_count, old_count) == new_count > old_count

\* the entry appended to new_citations_articles
DeltaEntry(a, old_count) ==
    [title |-> strip(Get(a, "title", <<>>)),
     old_count |-> old_count,
     new_count |-> NewCount(a),
     gained |-> NewCount(a) - old_count,
     year |-> Get(a, "year", "")]

\* new_citations_articles after the loop: one entry, in the order of arts,
\* for each article that passes the test
ScanArticles(arts, map) ==
    SelectSeq([i \in 1..Len(arts) |-> DeltaEntry(arts[i], OldCount(map, arts[i]))],
              LAMBDA e : Increased(e.new_count, e.old_count))

\* has_changes with the comparison slipped to >=
HasChanges_OrEqual(new_total, old_total) == new_total >= old_total

\* has_changes
HasChanges(new_total, old_total) == new_total > old_total

compute_diff(old, prof, arts) ==
    LET new == NewMetrics(prof)
        old_total == Get(old, "total_citations", 0)
        old_h == Get(old, "h_index", 0)
        old_i10 == Get(old, "i10_index", 0)
    IN  [total_citations |-> [old |-> old_total, new |-> new.total,
                              gained |-> new.total - old_total],
         h_index |-> [old |-> old_h, new |-> new.h],
         i10_index |-> [old |-> old_i10, new |-> new.i10],
         articles_with_new_citations |->
             ScanArticles(arts, old_articles_map(old)),
         has_changes |-> HasChanges(new.total, old_total)]

-----------------------------------------------------------------------------
(* The process environment and the data source *)

Unset == <<>>
SetValue == <<"x">>

\* the credentials a run may be started with: all set, or the API key
\* missing, or the sender's address, password or both missing
Envs ==
    {[SERPAPI_KEY |-> k, SENDER_EMAIL |-> e, SENDER_PASSWORD |-> p] :
        k \in {SetValue}, e \in {Unset, SetValue}, p \in {Unset, SetValue}}
    \cup {[SERPAPI_KEY |-> Unset, SENDER_EMAIL |-> SetValue, SENDER_PASSWORD |-> SetValue]}

DigitChar == <<"0", "1", "2", "3", "4", "5", "6", "7", "8", "9">>

RECURSIVE Digits(_)
Digits(i) ==
    IF i < 10 THEN <<DigitChar[i + 1]>>
    ELSE Digits(i \div 10) \o <<DigitChar[(i % 10) + 1]>>

\* the title the source reports for its i-th article; the source may change
\* case and surrounding blanks between runs (v)
TitleOf(i, v) ==
    IF v = 0 THEN <<"A">> \o Digits(i)
    ELSE <<" ", "a">> \o Digits(i) \o <<" ">>

\* the i-th article of the source's listing: some articles carry no
\* cited_by object, some carry null
RemoteArticle(i, v) ==
    CASE i % 4 = 0 ->
           [title |-> TitleOf(i, v), year |-> "2020", link |-> "l", authors |-> "x"]
      [] i % 4 = 3 ->
           [title |-> TitleOf(i, v), year |-> "2020", link |-> "l", authors |-> "x",
            cited_by |-> None]
      [] OTHER ->
           [title |-> TitleOf(i, v), year |-> "2020", link |-> "l", authors |-> "x",
            cited_by |-> [value |-> (i % 3) + v]]

\* cited_by.table as the source reports it for a total of t
TableOf(t) ==
    <<[citations |-> [all |-> t]],
      [h_index |-> [all |-> (t + 1) \div 2]],
      [i10_index |-> [all |-> t \div 2]]>>

CatalogSizes == {2, DashboardArticles + 1}

\* what the source may hold during one run: a total and a listing of n
\* articles; the short listing comes in two versions
Remotes ==
    {r \in [total : 0..MaxTotal, n : CatalogSizes, v : {0, 1}] :
        r.v = 1 => r.n = 2}

ErrorPayload == [error |-> "Invalid API key or account limit reached"]

\* requests.get(...) of fetch_scholar_profile: the request fails, or the
\* source answers with an error payload or with the profile
ProfileResponses(r) ==
    {[ok |-> FALSE, data |-> ErrorPayload],
     [ok |-> TRUE, data |-> ErrorPayload],
     [ok |-> TRUE, data |-> [cited_by |-> [table |-> TableOf(r.total)]]]}

\* the page [from+1 .. from+k] of the listing; an empty page has no
\* "articles" key
PagePayload(from, k, v) ==
    IF k = 0 THEN [search_metadata |-> "Success"]
    ELSE [articles |-> [i \in 1..k |-> RemoteArticle(from + i, v)]]

\* requests.get(...) of fetch_all_articles against a source that pages
\* through a listing of r.n articles
PageResponses(r, from, num) ==
    {[ok |-> FALSE, data |-> ErrorPayload],
     [ok |-> TRUE, data |-> ErrorPayload],
     [ok |-> TRUE,
      data |-> PagePayload(from, IF r.n > from THEN Min(num, r.n - from) ELSE 0, r.v)]}

\* the same request against a source that answers each page with any
\* number of articles
AnyPageLens == {0, 1, page_size}

AnyPageResponses(r, from, num) ==
    {[ok |-> FALSE, data |-> ErrorPayload],
     [ok |-> TRUE, data |-> ErrorPayload]}
    \cup {[ok |-> TRUE, data |-> PagePayload(from, k, r.v)] : k \in AnyPageLens}

-----------------------------------------------------------------------------
(* main, steps 3 and 5 *)

\* current_total, current_h, current_i10 of main
CurrentMetrics(prof) ==
    ScanTable(Get(Get(prof, "cited_by", <<>>), "table", <<>>), 1,
              [total |-> 0, h |-> 0, i10 |-> 0])

\* citation_count of a stored article
StoredCount(a) ==
    IF "cited_by" \in DOMAIN a /\ IsDict(a.cited_by)
    THEN Get(a.cited_by, "value", 0)
    ELSE 0

StoredArticle(a) ==
    [title |-> Get(a, "title", <<>>),
     citation_count |-> StoredCount(a),
     year |-> Get(a, "year", ""),
     link |-> Get(a, "link", ""),
     authors |-> Get(a, "authors", "")]

HistoryPoint(now, cur) ==
    [date |-> now, total_citations |-> cur.total,
     h_index |-> cur.h, i10_index |-> cur.i10]

\* a truncation that keeps the oldest entries
NewHistory_KeepOldest(old, now, cur) ==
    FirstN(Get(old, "history", <<>>) \o <<HistoryPoint(now, cur)>>, HistoryCap)

\* new_data["history"] after the truncation to the last 365 entries
NewHistory(old, now, cur) ==
    LastN(Get(old, "history", <<>>) \o <<HistoryPoint(now, cur)>>, HistoryCap)

\* the fetched articles merged into the old list instead of replacing it
NewData_Merged(old, prof, arts, now) ==
    LET cur == CurrentMetrics(prof)
    IN  [scholar_id |-> SCHOLAR_ID,
         name |-> SCHOLAR_NAME,
         affiliation |-> Get(Get(prof, "author", <<>>), "affiliations", "UC Berkeley"),
         last_checked |-> now,
         total_citations |-> cur.total,
         h_index |-> cur.h,
         i10_index |-> cur.i10,
         articles |-> Get(old, "articles", <<>>)
                        \o [i \in 1..Len(arts) |-> StoredArticle(arts[i])],
         history |-> LastN(Get(old, "history", <<>>) \o <<HistoryPoint(now, cur)>>,
                           HistoryCap)]

\* new_data as main saves it
NewData(old, prof, arts, now) ==
    LET cur == CurrentMetrics(prof)
    IN  [scholar_id |-> SCHOLAR_ID,
         name |-> SCHOLAR_NAME,
         affiliation |-> Get(Get(prof, "author", <<>>), "affiliations", "UC Berkeley"),
         last_checked |-> now,
         total_citations |-> cur.total,
         h_index |-> cur.h,
         i10_index |-> cur.i10,
         articles |-> [i \in 1..Len(arts) |-> StoredArticle(arts[i])],
         history |-> NewHistory(old, now, cur)]

-----------------------------------------------------------------------------
(* generate_dashboard_data: the content written to docs/data.json *)

LatestDiff(d) ==
    IF d.has_changes
    THEN [gained |-> d.total_citations.gained,
          articles_count |-> Len(d.articles_with_new_citations)]
    ELSE None

\* an export that keeps the oldest history points
generate_dashboard_data_Oldest(data, d) ==
    [name |-> data.name,
     affiliation |-> Get(data, "affiliation", ""),
     total_citations |-> data.total_citations,
     h_index |-> data.h_index,
     i10_index |-> data.i10_index,
     last_checked |-> data.last_checked,
     articles |-> FirstN(data.articles, DashboardArticles),
     history |-> FirstN(Get(data, "history", <<>>), DashboardHistory),
     latest_diff |-> LatestDiff(d)]

generate_dashboard_data(data, d) ==
    [name |-> data.name,
     affiliation |-> Get(data, "affiliation", ""),
     total_citations |-> data.total_citations,
     h_index |-> data.h_index,
     i10_index |-> data.i10_index,
     last_checked |-> data.last_checked,
     articles |-> FirstN(data.articles, DashboardArticles),
     history |-> LastN(Get(data, "history", <<>>), DashboardHistory),
     latest_diff |-> LatestDiff(d)]

-----------------------------------------------------------------------------
(* send_email *)

\* the guard slipped to "and": skipped only when both are missing
CredentialsMissing_Both(e) == e.SENDER_EMAIL = <<>> /\ e.SENDER_PASSWORD = <<>>

\* not SENDER_EMAIL or not SENDER_PASSWORD
CredentialsMissing(e) == e.SENDER_EMAIL = <<>> \/ e.SENDER_PASSWORD = <<>>

\* the one message of a notification
Message(d) ==
    [gained |-> d.total_citations.gained,
     total |-> d.total_citations.new,
     h_index |-> d.h_index.new,
     i10_index |-> d.i10_index.new]

-----------------------------------------------------------------------------
(* The state before the first run *)

NoEnv == [SERPAPI_KEY |-> Unset, SENDER_EMAIL |-> Unset, SENDER_PASSWORD |-> Unset]
NoRemote == [total |-> 0, n |-> 0, v |-> 0]
NoProfile == [cited_by |-> [table |-> <<>>]]
NoDiff == compute_diff(DefaultData, NoProfile, <<>>)

\* a snapshot left by earlier runs: one point short of the history cap
SeedData ==
    LET cur == [total |-> 1, h |-> 1, i10 |-> 0]
    IN  [scholar_id |-> SCHOLAR_ID,
         name |-> SCHOLAR_NAME,
         affiliation |-> "UC Berkeley",
         last_checked |-> HistoryCap - 1,
         total_citations |-> cur.total,
         h_index |-> cur.h,
         i10_index |-> cur.i10,
         articles |-> [i \in 1..2 |-> StoredArticle(RemoteArticle(i, 0))],
         history |-> [i \in 1..(HistoryCap - 1) |-> HistoryPoint(i, cur)]]

Locals0 ==
    /\ env = NoEnv
    /\ remote = NoRemote
    /\ old_data = DefaultData
    /\ profile = NoProfile
    /\ articles = <<>>
    /\ start = 0
    /\ requests = 0
    /\ diff = NoDiff
    /\ new_data = DefaultData
    /\ attempts = 0
    /\ outbox = <<>>
    /\ fault = "none"
    /\ written = <<>>

Init ==
    /\ pc = "idle"
    /\ \/ disk = <<>> /\ docs = <<>> /\ baseline = 0
       \/ /\ disk = <<SeedData>>
          /\ docs = <<generate_dashboard_data(SeedData, NoDiff)>>
          /\ baseline = SeedData.total_citations
    /\ clock = HistoryCap - 1
    /\ runs = 0
    /\ Locals0

-----------------------------------------------------------------------------
(* main *)

\* the process starts: the environment is read, then step 1 loads old_data
StartRun ==
    /\ pc = "idle"
    /\ runs < MaxRuns
    /\ runs' = runs + 1
    /\ env' \in Envs
    /\ remote' \in Remotes
    /\ old_data' = load_previous_data(disk)
    /\ pc' = "fetch_profile"
    /\ UNCHANGED <<disk, docs, clock, profile, articles, start, requests, diff,
                   new_data, attempts, outbox, fault, written,
                   baseline>>

\* step 2, fetch_scholar_profile
FetchProfile ==
    /\ pc = "fetch_profile"
    /\ IF env.SERPAPI_KEY = <<>>
       THEN /\ pc' = "aborted"
            /\ fault' = "no_key"
            /\ UNCHANGED profile
       ELSE \E resp \in ProfileResponses(remote) :
               IF ~resp.ok
               THEN /\ pc' = "aborted"
                    /\ fault' = "request_failed"
                    /\ UNCHANGED profile
               ELSE IF "error" \in DOMAIN resp.data
               THEN /\ pc' = "aborted"
                    /\ fault' = "error_payload"
                    /\ UNCHANGED profile
               ELSE /\ profile' = resp.data
                    /\ pc' = "fetch_articles"
                    /\ UNCHANGED fault
    /\ UNCHANGED <<env, remote, disk, docs, clock, runs, old_data, articles, start,
                   requests, diff, new_data, attempts, outbox, written,
                   baseline>>

\* start > 500
PastCap(s) == s > SafetyCap

\* step 2, one iteration of the loop of fetch_all_articles, the source
\* answering with one of resps
FetchPageFrom(resps) ==
    /\ pc = "fetch_articles"
    /\ requests' = requests + 1
    /\ \E resp \in resps :
          IF ~resp.ok
          THEN /\ pc' = "aborted"
               /\ fault' = "request_failed"
               /\ UNCHANGED <<articles, start>>
          ELSE LET page == Get(resp.data, "articles", <<>>)
               IN  /\ fault' = IF "error" \in DOMAIN resp.data /\ fault = "none"
                               THEN "error_payload" ELSE fault
                   /\ IF page = <<>>
                      THEN /\ pc' = "update"
                           /\ UNCHANGED <<articles, start>>
                      ELSE /\ articles' = articles \o page
                           /\ start' = start + page_size
                           /\ pc' = IF PastCap(start') THEN "update"
                                    ELSE "fetch_articles"
    /\ UNCHANGED <<env, remote, disk, docs, clock, runs, old_data, profile, diff,
                   new_data, attempts, outbox, written,
                   baseline>>

FetchPage == FetchPageFrom(PageResponses(remote, start, page_size))

FetchPageAny == FetchPageFrom(AnyPageResponses(remote, start, page_size))

\* steps 3 to 5 with the call of save_data left out
Update_NoSave ==
    /\ pc = "update"
    /\ clock' = clock + 1
    /\ diff' = compute_diff(old_data, profile, articles)
    /\ new_data' = NewData(old_data, profile, articles, clock')
    /\ pc' = "dashboard"
    /\ UNCHANGED <<env, remote, disk, docs, runs, old_data, profile, articles, start,
                   requests, attempts, outbox, fault, written,
                   baseline>>

\* steps 3 to 5: the diff, new_data, save_data(new_data)
Update ==
    /\ pc = "update"
    /\ clock' = clock + 1
    /\ diff' = compute_diff(old_data, profile, articles)
    /\ new_data' = NewData(old_data, profile, articles, clock')
    /\ disk' = save_data(new_data')
    /\ written' = Append(written, "data/citations.json")
    /\ pc' = "dashboard"
    /\ UNCHANGED <<env, remote, docs, runs, old_data, profile, articles, start,
                   requests, attempts, outbox, fault,
                   baseline>>

\* step 6, generate_dashboard_data(new_data, diff)
Dashboard ==
    /\ pc = "dashboard"
    /\ docs' = <<generate_dashboard_data(new_data, diff)>>
    /\ written' = Append(written, "docs/data.json")
    /\ pc' = "notify"
    /\ UNCHANGED <<env, remote, disk, clock, runs, old_data, profile, articles,
                   start, requests, diff, new_data, attempts, outbox, fault,
                   baseline>>

\* send_email(diff): skipped without credentials; otherwise one SMTP
\* session, which delivers the message or raises
send_email ==
    IF CredentialsMissing(env)
    THEN /\ pc' = "done"
         /\ UNCHANGED <<attempts, outbox>>
    ELSE /\ attempts' = attempts + 1
         /\ \/ /\ outbox' = Append(outbox, Message(diff))
               /\ pc' = "done"
            \/ /\ pc' = "failed"
               /\ UNCHANGED outbox

\* step 7 gated by the per-article list instead of has_changes
Notify_OnDeltas ==
    /\ pc = "notify"
    /\ IF diff.articles_with_new_citations # <<>>
       THEN send_email
       ELSE /\ pc' = "done"
            /\ UNCHANGED <<attempts, outbox>>
    /\ UNCHANGED <<env, remote, disk, docs, clock, runs, old_data, profile,
                   articles, start, requests, diff, new_data, fault, written,
                   baseline>>

\* step 7
Notify ==
    /\ pc = "notify"
    /\ IF diff.has_changes
       THEN send_email
       ELSE /\ pc' = "done"
            /\ UNCHANGED <<attempts, outbox>>
    /\ UNCHANGED <<env, remote, disk, docs, clock, runs, old_data, profile,
                   articles, start, requests, diff, new_data, fault, written,
                   baseline>>

\* the process ends: normally, by sys.exit(1) or by an exception; a run
\* that got past save_data leaves its fetched total as the next baseline
FinishRun ==
    /\ pc \in {"done", "aborted", "failed"}
    /\ pc' = "idle"
    /\ env' = NoEnv
    /\ remote' = NoRemote
    /\ old_data' = DefaultData
    /\ profile' = NoProfile
    /\ articles' = <<>>
    /\ start' = 0
    /\ requests' = 0
    /\ diff' = NoDiff
    /\ new_data' = DefaultData
    /\ attempts' = 0
    /\ outbox' = <<>>
    /\ fault' = "none"
    /\ written' = <<>>
    /\ baseline' = IF pc \in {"done", "failed"} THEN remote.total ELSE baseline
    /\ UNCHANGED <<disk, docs, clock, runs>>

Next ==
    \/ StartRun
    \/ FetchProfile
    \/ FetchPage
    \/ Update
    \/ Dashboard
    \/ Notify
    \/ FinishRun

Spec == Init /\ [][Next]_vars

-----------------------------------------------------------------------------
(* fetch_all_articles against a source that answers every page request     *)
(* with any number of articles                                             *)

InitFetch ==
    /\ pc = "fetch_articles"
    /\ env = [SERPAPI_KEY |-> SetValue, SENDER_EMAIL |-> SetValue,
              SENDER_PASSWORD |-> SetValue]
    /\ remote \in {r \in Remotes : r.n = 2}
    /\ profile = [cited_by |-> [table |-> TableOf(remote.total)]]
    /\ disk = <<>>
    /\ docs = <<>>
    /\ clock = 0
    /\ runs = 1
    /\ old_data = DefaultData
    /\ articles = <<>>
    /\ start = 0
    /\ requests = 0
    /\ diff = NoDiff
    /\ new_data = DefaultData
    /\ attempts = 0
    /\ outbox = <<>>
    /\ fault = "none"
    /\ written = <<>>
    /\ baseline = 0

SpecFetch == InitFetch /\ [][FetchPageAny]_vars

-----------------------------------------------------------------------------
(* compute_diff on its own: every old snapshot and fetch built from a few  *)
(* titles and counts                                                       *)

DiffTitles == {<<" ">>, <<"a">>, <<" ", "A", " ">>, <<"b">>}

DiffOldArticles ==
    {[title |-> t, citation_count |-> c, year |-> "2019", link |-> "l",
      authors |-> "x"] : t \in DiffTitles, c \in 0..MaxCount}

DiffNewArticles ==
    {[title |-> t, cited_by |-> [value |-> c], year |-> "2020", link |-> "l",
      authors |-> "x"] : t \in DiffTitles, c \in 0..MaxCount}

UpToTwo(S) == {<<>>} \cup {<<a>> : a \in S} \cup {<<a, b>> : a, b \in S}

InitDiff ==
    /\ pc = "diff"
    /\ env = NoEnv
    /\ remote = NoRemote
    /\ disk = <<>>
    /\ docs = <<>>
    /\ clock = 0
    /\ runs = 1
    /\ \E t \in 0..MaxDiffTotal, as \in UpToTwo(DiffOldArticles) :
          old_data = [DefaultData EXCEPT !.total_citations = t, !.articles = as]
    /\ \E t \in 0..MaxDiffTotal : profile = [cited_by |-> [table |-> TableOf(t)]]
    /\ articles \in UpToTwo(DiffNewArticles)
    /\ start = 0
    /\ requests = 0
    /\ diff = NoDiff
    /\ new_data = DefaultData
    /\ attempts = 0
    /\ outbox = <<>>
    /\ fault = "none"
    /\ written = <<>>
    /\ baseline = 0

\* diff = compute_diff(old_data, profile, articles)
DiffCall ==
    /\ pc = "diff"
    /\ diff' = compute_diff(old_data, profile, articles)
    /\ pc' = "diffed"
    /\ UNCHANGED <<env, remote, disk, docs, clock, runs, old_data, profile,
                   articles, start, requests, new_data, attempts, outbox, fault,
                   written,
                   baseline>>

SpecDiff == InitDiff /\ [][DiffCall]_vars

-----------------------------------------------------------------------------
(* What the claims speak of, said without the program's own helpers *)

\* the value of the last row of cited_by.table that holds key k, 0 if none
Fetched(prof, k) ==
    LET table == prof.cited_by.table
        rows == {i \in DOMAIN table : k \in DOMAIN table[i]}
    IN  IF rows = {} THEN 0
        ELSE table[CHOOSE i \in rows : \A j \in rows : j <= i][k].all

\* the citation count the source reports for a fetched article
FetchedCount(a) ==
    IF "cited_by" \in DOMAIN a /\ "value" \in DOMAIN a.cited_by
    THEN a.cited_by.value
    ELSE 0

Blank(t) == \A i \in DOMAIN t : t[i] \in {" ", "\t", "\n"}

\* the title without its leading and trailing blanks (t not blank)
Core(t) ==
    LET ink == {i \in DOMAIN t : t[i] \notin {" ", "\t", "\n"}}
        first == CHOOSE i \in ink : \A j \in ink : i <= j
        last == CHOOSE i \in ink : \A j \in ink : j <= i
    IN  [i \in 1..(last - first + 1) |-> t[first + i - 1]]

SameLetter(c, d) == c = d \/ {c, d} = {"a", "A"} \/ {c, d} = {"b", "B"}

\* the titles differ only in letter case and surrounding blanks
SimilarTitles(s, t) ==
    IF Blank(s) \/ Blank(t) THEN Blank(s) /\ Blank(t)
    ELSE /\ Len(Core(s)) = Len(Core(t))
         /\ \A i \in 1..Len(Core(s)) : SameLetter(Core(s)[i], Core(t)[i])

\* the count of the last old article among those at indices js, 0 if none
LastCount(olds, js) ==
    IF js = {} THEN 0
    ELSE olds[CHOOSE j \in js : \A k \in js : k <= j].citation_count

\* prior count when every title, blank ones included, is matched
PriorAnyTitle(olds, a) ==
    LastCount(olds, {j \in DOMAIN olds : SimilarTitles(olds[j].title, a.title)})

\* prior count when only non-blank titles are matched
PriorNonBlank(olds, a) ==
    LastCount(olds, {j \in DOMAIN olds :
                        /\ ~Blank(a.title)
                        /\ SimilarTitles(olds[j].title, a.title)})

\* ds holds, in the order of news, one entry for each article of news whose
\* count exceeds its prior count, and nothing else
DeltasAre(ds, news, prior) ==
    LET up == {i \in DOMAIN news : FetchedCount(news[i]) > prior[i]}
        nth(k) == CHOOSE i \in up : Cardinality({j \in up : j <= i}) = k
    IN  /\ Len(ds) = Cardinality(up)
        /\ \A k \in 1..Len(ds) :
              /\ ds[k].new_count = FetchedCount(news[nth(k)])
              /\ ds[k].old_count = prior[nth(k)]
              /\ ds[k].gained = ds[k].new_count - ds[k].old_count
              /\ ds[k].gained > 0
              /\ SimilarTitles(ds[k].title, news[nth(k)].title)

\* the fetch repeats the old snapshot: same titles, same counts
SameArticles(olds, news) ==
    /\ Len(olds) = Len(news)
    /\ \A i \in DOMAIN olds :
          /\ olds[i].title = news[i].title
          /\ olds[i].citation_count = FetchedCount(news[i])

\* every title is non-blank and no two articles share a normalized title
DistinctTitles(olds) ==
    /\ \A i \in DOMAIN olds : ~Blank(olds[i].title)
    /\ \A i, j \in DOMAIN olds :
          i # j => ~SimilarTitles(olds[i].title, olds[j].title)

Deltas == diff.articles_with_new_citations

-----------------------------------------------------------------------------
(* C1: compute_diff returns gained = new_total - old_total and             *)
(* has_changes = (new_total > old_total), whatever the per-article list;   *)
(* so gained > 0 whenever has_changes, and no change on a decrease.        *)
C1_TotalDelta ==
    pc = "diffed" =>
        LET old_total == old_data.total_citations
            new_total == Fetched(profile, "citations")
        IN  /\ diff.total_citations.old = old_total
            /\ diff.total_citations.new = new_total
            /\ diff.total_citations.gained = new_total - old_total
            /\ diff.has_changes = (new_total > old_total)
            /\ diff.has_changes => diff.total_citations.gained > 0

\* the total went down while an article's count went up
C1_Witness ==
    /\ pc = "diffed"
    /\ Fetched(profile, "citations") < old_data.total_citations
    /\ ~diff.has_changes
    /\ Deltas # <<>>

(* C2, as claimed: the delta list holds, in fetch order, one entry for     *)
(* each fetched article whose count exceeds its prior count (0 when the    *)
(* old snapshot has no article of that title), and a fetch that repeats    *)
(* the old snapshot's titles and counts gives an empty list.               *)
C2_AsClaimed ==
    pc = "diffed" =>
        /\ DeltasAre(Deltas, articles,
                     [i \in DOMAIN articles |->
                         PriorAnyTitle(old_data.articles, articles[i])])
        /\ SameArticles(old_data.articles, articles) => Deltas = <<>>

(* C2, amended: the prior count is that of the last old article whose      *)
(* trimmed, lower-cased title is non-empty and equals the fetched one's,    *)
(* 0 if there is none; the list holds, in fetch order and unsorted, one    *)
(* entry per fetched article whose count exceeds it, with gained =         *)
(* new - old > 0; a repeated snapshot gives an empty list when its titles  *)
(* are non-blank and pairwise distinct after normalization.                *)
C2_DeltaList ==
    pc = "diffed" =>
        /\ DeltasAre(Deltas, articles,
                     [i \in DOMAIN articles |->
                         PriorNonBlank(old_data.articles, articles[i])])
        /\ \A k \in DOMAIN Deltas :
              Deltas[k].old_count = 0 => Deltas[k].gained = Deltas[k].new_count
        /\ (SameArticles(old_data.articles, articles)
              /\ DistinctTitles(old_data.articles)) => Deltas = <<>>

\* two entries in fetch order, the smaller gain first, the first one for an
\* article seen before and the second for an unseen one
C2_Witness ==
    /\ pc = "diffed"
    /\ Len(Deltas) = 2
    /\ Deltas[1].gained < Deltas[2].gained
    /\ Deltas[1].old_count > 0
    /\ Deltas[2].old_count = 0
    /\ Deltas[2].gained = Deltas[2].new_count

(* C3, as claimed: a fetched article whose title differs from an old       *)
(* article's only in case and surrounding blanks takes that article's      *)
(* count as old_count, for every title, the blank ones included.           *)
C3_AsClaimed ==
    pc = "diffed" =>
        \A i \in DOMAIN articles :
            LET prior == PriorAnyTitle(old_data.articles, articles[i])
            IN  (FetchedCount(articles[i]) > prior)
                    <=> (\E k \in DOMAIN Deltas :
                            /\ Deltas[k].old_count = prior
                            /\ Deltas[k].new_count = FetchedCount(articles[i])
                            /\ SimilarTitles(Deltas[k].title, articles[i].title))

(* C3, amended: the same for every title that is not blank, the last old   *)
(* article of that normalized title giving old_count; a fetched article    *)
(* with an empty or whitespace-only title is never matched: old_count 0.   *)
C3_TitleMatch ==
    pc = "diffed" =>
        \A i \in DOMAIN articles :
            LET prior == PriorNonBlank(old_data.articles, articles[i])
            IN  /\ Blank(articles[i].title) => prior = 0
                /\ (FetchedCount(articles[i]) > prior)
                    <=> (\E k \in DOMAIN Deltas :
                            /\ Deltas[k].old_count = prior
                            /\ Deltas[k].new_count = FetchedCount(articles[i])
                            /\ SimilarTitles(Deltas[k].title, articles[i].title))

\* an old " A " with one citation is matched by a fetched "a" with two
C3_Witness ==
    /\ pc = "diffed"
    /\ Len(old_data.articles) = 1
    /\ Len(articles) = 1
    /\ old_data.articles[1].title = <<" ", "A", " ">>
    /\ old_data.articles[1].citation_count = 1
    /\ articles[1].title = <<"a">>
    /\ Len(Deltas) = 1
    /\ Deltas[1].old_count = 1
    /\ Deltas[1].gained = 1

-----------------------------------------------------------------------------
SnapshotFile == "data/citations.json"
DashboardFile == "docs/data.json"

\* the run is past save_data
Saved == pc \in {"dashboard", "notify", "done", "failed"}

\* the run is past generate_dashboard_data
Exported == pc \in {"notify", "done", "failed"}

\* the persisted snapshot is what this run loaded
SnapshotUntouched == load_previous_data(disk) = old_data

(* C4, as claimed: a missing API key, an error payload or a failed request *)
(* during the profile fetch or any page of the article fetch aborts the    *)
(* run: nothing is saved, exported or sent, the snapshot stays as it was.  *)
C4_FaultAborts ==
    fault # "none" =>
        /\ ~Saved
        /\ written = <<>>
        /\ attempts = 0
        /\ SnapshotUntouched

(* C5: delivery is attempted only after the snapshot and then the          *)
(* dashboard file are written; when delivery raises the run fails with the *)
(* snapshot of this run on disk.                                           *)
C5_SaveBeforeEmail ==
    /\ attempts > 0 =>
          /\ written = <<SnapshotFile, DashboardFile>>
          /\ disk = <<new_data>>
          /\ disk[1].last_checked = clock
          /\ disk[1].total_citations = Fetched(profile, "citations")
          /\ docs # <<>>
          /\ docs[1].last_checked = clock
    /\ pc = "failed" => attempts > 0 /\ outbox = <<>>

\* delivery raised after a higher total was saved
C5_Witness ==
    /\ pc = "failed"
    /\ attempts = 1
    /\ disk = <<new_data>>
    /\ disk[1].total_citations > old_data.total_citations

(* C6, as claimed: fetch_all_articles returns at most 500 articles         *)
(* whatever the source answers.                                            *)
C6_FetchCapped == pc = "update" => Len(articles) <= 500

(* C7: the persisted history never exceeds 365 entries; a run appends its  *)
(* own point at the end, keeps the order of the earlier points and evicts  *)
(* only the oldest ones.                                                   *)
C7_HistoryFifo ==
    /\ disk # <<>> => Len(disk[1].history) <= 365
    /\ Saved =>
          LET h == disk[1].history
              oh == old_data.history
              n == Len(h)
          IN  /\ n = Min(365, Len(oh) + 1)
              /\ h[n] = [date |-> clock,
                         total_citations |-> Fetched(profile, "citations"),
                         h_index |-> Fetched(profile, "h_index"),
                         i10_index |-> Fetched(profile, "i10_index")]
              /\ \A i \in 1..(n - 1) : h[i] = oh[Len(oh) - (n - 1) + i]

\* a run that found a full history and evicted its oldest point
C7_Witness ==
    /\ Saved
    /\ Len(old_data.history) = 365
    /\ Len(disk[1].history) = 365
    /\ disk[1].history[1] = old_data.history[2]
    /\ disk[1].history[365].date = clock

(* C8: with has_changes true and the sender's address or password unset,   *)
(* no delivery is attempted and nothing is raised: the run ends normally   *)
(* with snapshot and dashboard written; without the API key the run aborts *)
(* before anything is written.                                             *)
C8_MissingSender ==
    /\ (/\ pc \in {"done", "failed"}
        /\ diff.has_changes
        /\ (env.SENDER_EMAIL = Unset \/ env.SENDER_PASSWORD = Unset))
       => /\ pc = "done"
          /\ attempts = 0
          /\ outbox = <<>>
          /\ written = <<SnapshotFile, DashboardFile>>
          /\ disk = <<new_data>>
          /\ disk[1].last_checked = clock
          /\ docs # <<>>
          /\ docs[1].last_checked = clock
    /\ (env.SERPAPI_KEY = Unset /\ pc \notin {"idle", "fetch_profile"})
       => /\ pc = "aborted"
          /\ written = <<>>
          /\ attempts = 0
          /\ SnapshotUntouched

\* a higher total, a password but no sender address: the run ends normally
C8_Witness ==
    /\ pc = "done"
    /\ diff.has_changes
    /\ env.SENDER_EMAIL = Unset
    /\ env.SENDER_PASSWORD = SetValue
    /\ attempts = 0
    /\ written = <<SnapshotFile, DashboardFile>>

(* C9: the dashboard file holds the first min(50, n) snapshot articles in  *)
(* order, the last min(90, m) history points in order, and latest_diff =   *)
(* {gained, articles_count} when has_changes and null otherwise; the       *)
(* export leaves the snapshot alone.                                       *)
C9_DashboardProjection ==
    Exported =>
        /\ docs # <<>>
        /\ disk = <<new_data>>
        /\ LET d == docs[1]
               n == Len(new_data.articles)
               m == Len(new_data.history)
           IN  /\ Len(d.articles) = Min(50, n)
               /\ \A i \in 1..Len(d.articles) : d.articles[i] = new_data.articles[i]
               /\ Len(d.history) = Min(90, m)
               /\ \A i \in 1..Len(d.history) :
                     d.history[i] = new_data.history[m - Len(d.history) + i]
               /\ d.latest_diff =
                     IF diff.has_changes
                     THEN [gained |-> diff.total_citations.gained,
                           articles_count |-> Len(Deltas)]
                     ELSE None

\* more than 50 articles, more than 90 points, a higher total
C9_Witness ==
    /\ pc = "notify"
    /\ Len(new_data.articles) > 50
    /\ Len(new_data.history) > 90
    /\ diff.has_changes
    /\ docs[1].latest_diff.articles_count > 0

(* C10: after save the snapshot's totals, indices and article list are     *)
(* those of this run's fetch (the diff's new values), the old articles     *)
(* gone unless fetched again; a lower total is stored without error and    *)
(* without notification.                                                   *)
C10_SnapshotIsFetch ==
    Saved =>
        LET s == disk[1]
        IN  /\ s.total_citations = Fetched(profile, "citations")
            /\ s.total_citations = diff.total_citations.new
            /\ s.h_index = Fetched(profile, "h_index")
            /\ s.h_index = diff.h_index.new
            /\ s.i10_index = Fetched(profile, "i10_index")
            /\ s.i10_index = diff.i10_index.new
            /\ Len(s.articles) = Len(articles)
            /\ \A i \in DOMAIN articles :
                  /\ s.articles[i].title = articles[i].title
                  /\ s.articles[i].citation_count = FetchedCount(articles[i])
            /\ s.total_citations < old_data.total_citations
                  => /\ ~diff.has_changes
                     /\ attempts = 0
                     /\ outbox = <<>>
                     /\ pc # "failed"

\* a lower total and a shorter listing replace a snapshot that had more
\* articles
C10_Witness ==
    /\ pc = "done"
    /\ disk[1].total_citations < old_data.total_citations
    /\ Len(old_data.articles) > Len(disk[1].articles)
    /\ disk[1].articles # <<>>
    /\ fault = "none"

\* both sender credentials are set
SenderSet == env.SENDER_EMAIL # Unset /\ env.SENDER_PASSWORD # Unset

\* the run got past step 7, normally or by a delivery exception
Ended == pc \in {"done", "failed"}

\* this run's fetched total exceeds the total fetched by the most recent
\* earlier run that reached save (0 if none)
TotalRose == Fetched(profile, "citations") > baseline

\* C11 as stated: a run that got past step 7 has opened an SMTP session
\* exactly when its fetched total exceeds the total fetched by the most
\* recent earlier run that reached save.
C11_AsClaimed == Ended => ((attempts > 0) <=> TotalRose)

(* C11: over any sequence of runs, the baseline a run loads is the total   *)
(* fetched by the most recent earlier run that reached save (0 if none),   *)
(* whatever became of that run's delivery; a run that gets past step 7     *)
(* opens an SMTP session, exactly one, if and only if its fetched total    *)
(* strictly exceeds that baseline and both sender credentials are set,     *)
(* whatever the per-article list; without them delivery is skipped; a run  *)
(* that aborts during fetch opens none. So a run that fetches the total    *)
(* the previous saving run fetched never notifies.                         *)
C11_NotifyGate ==
    /\ pc \notin {"idle", "diff", "diffed"}
          => old_data.total_citations = baseline
    /\ Ended =>
          /\ (attempts > 0) <=> (TotalRose /\ SenderSet)
          /\ attempts <= 1
          /\ diff.has_changes <=> TotalRose
          /\ (~TotalRose \/ ~SenderSet) => pc = "done" /\ outbox = <<>>
          /\ pc = "done" /\ attempts = 1 => Len(outbox) = 1
    /\ pc = "aborted" => attempts = 0 /\ outbox = <<>>

\* a second run, after a run that saved a total above zero, fetches a
\* higher total and delivers although no article's count rose
C11_Witness ==
    /\ runs = 2
    /\ pc = "done"
    /\ baseline > 0
    /\ disk[1].history[Len(disk[1].history) - 1].total_citations = baseline
    /\ Fetched(profile, "citations") > baseline
    /\ Deltas = <<>>
    /\ attempts = 1
    /\ Len(outbox) = 1

====
